---- MODULE Spec2Model ----
(***************************************************************************)
(* gitops-squared: the API server that turns resource declarations into    *)
(* versioned OCI artifacts, keeps an in-memory catalog index and publishes *)
(* the aggregate catalog.                                                  *)
(*                                                                         *)
(* Strings are sequences of tokens: the separators "/" and "-" are tokens  *)
(* of their own, every other token is a run of characters without a        *)
(* separator.  Byte strings produced by a marshaller are the record that   *)
(* was marshalled (two byte strings are equal iff the records are).  An    *)
(* OCI digest is the manifest it is the hash of: equal content, equal      *)
(* digest.  Timestamps are whole seconds of the wall clock.                *)
(***************************************************************************)
EXTENDS Integers, Sequences, FiniteSets, TLC

\* ------------------------------------------------------------------ bounds
MaxTime == 2
MaxOps == 2
MaxFaults == 1
MaxRestarts == 1

Procs == {1, 2}
Names == {<<"a">>, <<"b">>}
ReplicaInputs == {0, 3, 11}

\* --------------------------------------------------------------- constants
defaultNamespace == <<"default">>
repoPrefix == <<"gitops", "-", "squared", "/", "resources">>
catalogRepoPath == <<"gitops", "-", "squared", "/", "catalog">>
ArtifactTypeResource == "application/vnd.gitops-squared.resource.v1"
MediaTypeResourceYAML == "application/vnd.gitops-squared.manifest.v1+yaml"
MediaTypeFluxContent == "application/vnd.cncf.flux.content.v1.tar+gzip"
MediaTypeFluxConfig == "application/vnd.cncf.flux.config.v1+json"
AnnotationResourceName == "io.gitops-squared.resource.name"
AnnotationResourceNamespace == "io.gitops-squared.resource.namespace"
AnnotationResourceVersion == "io.gitops-squared.resource.version"
AnnotationResourceDeleted == "io.gitops-squared.resource.deleted"
AnnotationTitle == "org.opencontainers.image.title"
AnnotationCreated == "org.opencontainers.image.created"
validTypes == {"vm", "database", "bucket"}
validSizes == {"small", "medium", "large"}
StatusOK == 200
StatusCreated == 201
StatusBadRequest == 400
StatusNotFound == 404
StatusInternalServerError == 500

VARIABLES
    now,        \* wall clock, seconds
    phase,      \* "boot": main has built the manager, Restore not yet run; "serving"
    registry,   \* repository path -> (tag -> manifest): the remote OCI registry
    resources,  \* CatalogManager.resources: key -> YAML bytes
    req,        \* per request slot: the handler's position and locals
    lastRestore,\* outcome of the Restore run at startup
    retracted,  \* history: names retracted with no publish of the name during or after
    overlapped, \* history: two requests have been in flight at once
    ops,        \* requests started so far
    faults,     \* registry calls that failed so far
    restarts    \* process restarts so far

vars == <<now, phase, registry, resources, req, lastRestore, retracted, overlapped, ops,
          faults, restarts>>

\* ----------------------------------------------------------------- strings
RECURSIVE ReplaceAll(_, _, _)
ReplaceAll(s, old, new) ==
    IF s = <<>> THEN <<>>
    ELSE <<(IF Head(s) = old THEN new ELSE Head(s))>> \o ReplaceAll(Tail(s), old, new)

HasPrefix(s, p) == Len(s) >= Len(p) /\ SubSeq(s, 1, Len(p)) = p

TrimPrefix(s, p) == IF HasPrefix(s, p) THEN SubSeq(s, Len(p) + 1, Len(s)) ELSE s

IndexOf(s, sep) ==
    IF \E i \in 1..Len(s) : s[i] = sep
    THEN CHOOSE i \in 1..Len(s) : s[i] = sep /\ \A j \in 1..(i - 1) : s[j] # sep
    ELSE 0

\* strings.SplitN(s, sep, 2)
SplitN2(s, sep) ==
    LET i == IndexOf(s, sep)
    IN  IF i = 0 THEN <<s>> ELSE <<SubSeq(s, 1, i - 1), SubSeq(s, i + 1, Len(s))>>

VersionTag(t) == "v" \o ToString(t)
Timestamp(t) == ToString(t)

\* ------------------------------------------------------------------- model
Defaulted(spec) == IF spec.replicas = 0 THEN [spec EXCEPT !.replicas = 1] ELSE spec

Validate(r) ==
    IF r.name = <<>> THEN FALSE
    ELSE IF r.spec.type \notin validTypes THEN FALSE
    ELSE IF r.spec.size \notin validSizes THEN FALSE
    ELSE IF r.spec.replicas > 10 THEN FALSE
    ELSE TRUE

ToKubernetesYAML(r, namespace, version, t) ==
    [apiVersion |-> "gitops-squared.io/v1alpha1",
     kind |-> "PlatformResource",
     name |-> r.name,
     namespace |-> namespace,
     version |-> version,
     pushedAt |-> Timestamp(t),
     spec |-> Defaulted(r.spec)]

\* --------------------------------------------------------------- oci client
resourceRepoPath(namespace, name) == repoPrefix \o <<"/">> \o namespace \o <<"/">> \o name

ResourceManifest(namespace, name, manifest, t) ==
    [artifactType |-> ArtifactTypeResource,
     layers |-> << [mediaType |-> MediaTypeResourceYAML,
                    data |-> manifest,
                    annotations |-> (AnnotationTitle :> <<"platformresource.yaml">>)
                                 @@ (AnnotationResourceName :> name)
                                 @@ (AnnotationResourceNamespace :> namespace)
                                 @@ (AnnotationResourceVersion :> <<VersionTag(t)>>)] >>,
     annotations |-> (AnnotationCreated :> <<Timestamp(t)>>)
                  @@ (AnnotationResourceName :> name)
                  @@ (AnnotationResourceNamespace :> namespace)]

TombstoneManifest(namespace, name, t) ==
    [artifactType |-> ArtifactTypeResource,
     layers |-> << [mediaType |-> MediaTypeResourceYAML,
                    data |-> [deleted |-> namespace \o <<"/">> \o name],
                    annotations |-> (AnnotationResourceName :> name)
                                 @@ (AnnotationResourceNamespace :> namespace)
                                 @@ (AnnotationResourceDeleted :> <<"true">>)
                                 @@ (AnnotationResourceVersion :> <<VersionTag(t)>>)] >>,
     annotations |-> (AnnotationCreated :> <<Timestamp(t)>>)
                  @@ (AnnotationResourceDeleted :> <<"true">>)]

\* repo.Tag / the tagging half of oras.Copy: the tag now resolves to desc
TagRepo(reg, path, tag, desc) ==
    IF path \in DOMAIN reg
    THEN [reg EXCEPT ![path] = (tag :> desc) @@ reg[path]]
    ELSE (path :> (tag :> desc)) @@ reg

\* the value of annotations[k] in Go: "" when the key is absent
AnnotationValue(annotations, k) == IF k \in DOMAIN annotations THEN annotations[k] ELSE <<>>

\* PullResource returning the manifest's annotations without the layer's
PullResourceManifestAnnotations(reg, namespace, name, reference) ==
    LET repoPath == resourceRepoPath(namespace, name)
    IN  IF repoPath \notin DOMAIN reg \/ reference \notin DOMAIN reg[repoPath]
        THEN [err |-> "fetching manifest"]
        ELSE LET manifest == reg[repoPath][reference]
             IN  IF Len(manifest.layers) = 0
                 THEN [err |-> "manifest has no layers"]
                 ELSE [err |-> "",
                       data |-> manifest.layers[1].data,
                       annotations |-> manifest.annotations]

PullResource(reg, namespace, name, reference) ==
    LET repoPath == resourceRepoPath(namespace, name)
    IN  IF repoPath \notin DOMAIN reg \/ reference \notin DOMAIN reg[repoPath]
        THEN [err |-> "fetching manifest"]
        ELSE LET manifest == reg[repoPath][reference]
             IN  IF Len(manifest.layers) = 0
                 THEN [err |-> "manifest has no layers"]
                 ELSE LET layerDesc == manifest.layers[1]
                      IN  [err |-> "",
                           data |-> layerDesc.data,
                           annotations |-> layerDesc.annotations @@ manifest.annotations]

ListResourceRepos(reg) ==
    LET suffix(r) == TrimPrefix(r, repoPrefix \o <<"/">>)
    IN  { [Repository |-> r,
           Namespace |-> SplitN2(suffix(r), "/")[1],
           Name |-> SplitN2(suffix(r), "/")[2]] :
          r \in { q \in DOMAIN reg : /\ HasPrefix(q, repoPrefix \o <<"/">>)
                                     /\ Len(SplitN2(suffix(q), "/")) = 2 } }

CatalogManifest(tarGzBytes, t) ==
    [artifactType |-> MediaTypeFluxConfig,
     layers |-> << [mediaType |-> MediaTypeFluxContent,
                    data |-> tarGzBytes,
                    annotations |-> <<>>] >>,
     annotations |-> (AnnotationCreated :> <<Timestamp(t)>>)]

\* Client.PushCatalog that also keeps the catalog under a version tag
PushCatalogVersioned(reg, tarGzBytes, t) ==
    TagRepo(TagRepo(reg, catalogRepoPath, VersionTag(t), CatalogManifest(tarGzBytes, t)),
            catalogRepoPath, "latest", CatalogManifest(tarGzBytes, t))

\* Client.PushCatalog: the registry once oras.Copy of "latest" has succeeded
ClientPushCatalog(reg, tarGzBytes, t) ==
    TagRepo(reg, catalogRepoPath, "latest", CatalogManifest(tarGzBytes, t))

\* ---------------------------------------------------------- catalog manager
EmptyIndex == <<>>

Key(namespace, name) == namespace \o <<"/">> \o name

\* Set storing into a fresh map instead of the shared one
SetReplacing(idx, namespace, name, manifest) == (Key(namespace, name) :> manifest)

Set(idx, namespace, name, manifest) ==
    [k \in DOMAIN idx \cup {Key(namespace, name)} |->
        IF k = Key(namespace, name) THEN manifest ELSE idx[k]]

\* Delete keyed by the bare name instead of namespace/name
DeleteByName(idx, namespace, name) == [k \in DOMAIN idx \ {name} |-> idx[k]]

\* Delete dropping every entry of the map
DeleteClearing(idx, namespace, name) == EmptyIndex

Delete(idx, namespace, name) ==
    [k \in DOMAIN idx \ {Key(namespace, name)} |-> idx[k]]

Get(idx, namespace, name) ==
    IF Key(namespace, name) \in DOMAIN idx
    THEN [ok |-> TRUE, data |-> idx[Key(namespace, name)]]
    ELSE [ok |-> FALSE]

List(idx) == [k \in DOMAIN idx |-> idx[k]]

\* every order in which a Go map range can visit the keys
Orders(idx) ==
    LET n == Cardinality(DOMAIN idx)
    IN  { o \in [1..n -> DOMAIN idx] : \A i, j \in 1..n : o[i] = o[j] => i = j }

buildKustomization(filenames) ==
    [header |-> "apiVersion: kustomize.config.k8s.io/v1beta1\nkind: Kustomization\nresources:\n",
     lines |-> IF Len(filenames) = 0 THEN << <<"[]">> >> ELSE filenames]

buildCatalogTarGz(snapshot, order) ==
    LET filenames == [i \in 1..Len(order) |-> ReplaceAll(order[i], "/", "-") \o <<".yaml">>]
    IN  [i \in 1..Len(order) |->
            [name |-> <<"manifests", "/">> \o filenames[i], data |-> snapshot[order[i]]]]
        \o << [name |-> <<"manifests", "/", "kustomization", ".yaml">>,
               data |-> buildKustomization(filenames)] >>

\* Restore treating a failed pull as a deleted resource
RECURSIVE RestoreLoopDroppingFailed(_, _, _, _)
RestoreLoopDroppingFailed(idx, reg, repos, failed) ==
    IF repos = {} THEN idx
    ELSE LET repo == CHOOSE r \in repos : TRUE
             pulled == PullResource(reg, repo.Namespace, repo.Name, "latest")
             next == IF repo.Repository \in failed \/ pulled.err # ""
                     THEN Delete(idx, repo.Namespace, repo.Name)
                     ELSE IF AnnotationValue(pulled.annotations, AnnotationResourceDeleted) = <<"true">>
                          THEN idx
                          ELSE Set(idx, repo.Namespace, repo.Name, pulled.data)
         IN  RestoreLoopDroppingFailed(next, reg, repos \ {repo}, failed)

\* Restore giving up at the first pull that fails
RECURSIVE RestoreLoopAbortingOnFailure(_, _, _, _)
RestoreLoopAbortingOnFailure(idx, reg, repos, failed) ==
    IF repos = {} THEN idx
    ELSE LET repo == CHOOSE r \in repos : TRUE
             pulled == PullResource(reg, repo.Namespace, repo.Name, "latest")
         IN  IF repo.Repository \in failed \/ pulled.err # "" THEN idx
             ELSE RestoreLoopAbortingOnFailure(
                      IF AnnotationValue(pulled.annotations, AnnotationResourceDeleted) = <<"true">>
                      THEN idx
                      ELSE Set(idx, repo.Namespace, repo.Name, pulled.data),
                      reg, repos \ {repo}, failed)

\* the loop of Restore over the listed repositories; failed = the repositories
\* whose pull fails on the network
RECURSIVE RestoreLoop(_, _, _, _)
RestoreLoop(idx, reg, repos, failed) ==
    IF repos = {} THEN idx
    ELSE LET repo == CHOOSE r \in repos : TRUE
             pulled == PullResource(reg, repo.Namespace, repo.Name, "latest")
             next == IF repo.Repository \in failed \/ pulled.err # "" THEN idx
                     ELSE IF AnnotationValue(pulled.annotations, AnnotationResourceDeleted) = <<"true">>
                          THEN idx
                          ELSE Set(idx, repo.Namespace, repo.Name, pulled.data)
         IN  RestoreLoop(next, reg, repos \ {repo}, failed)

\* ------------------------------------------------------------------ inputs
Specs == { [type |-> "vm", size |-> "small", region |-> "", replicas |-> n] : n \in ReplicaInputs }

Requests == { [name |-> n, spec |-> s] : n \in Names, s \in Specs }
               \cup { [name |-> <<>>, spec |-> s] : s \in { x \in Specs : x.replicas = 0 } }

PathNames == Names \cup { <<>> }

\* ------------------------------------------------------------ request slots
NoRequest == [name |-> <<>>]
NoDesc == [artifactType |-> ""]
NoYAML == [kind |-> ""]

IdleSlot ==
    [pc |-> "idle", op |-> "none", r |-> NoRequest, version |-> "", desc |-> NoDesc,
     yamlBytes |-> NoYAML, snapshot |-> <<>>, tarGz |-> <<>>, status |-> 0,
     pre |-> <<>>,      \* history: the tags of the repository when the request began
     conc |-> FALSE,    \* history: the other slot's request overlaps this one
     dirty |-> FALSE]   \* history: a publish of the same name overlaps this one

InFlight(p) == req[p].pc # "idle"

Tags(reg, path) == IF path \in DOMAIN reg THEN reg[path] ELSE <<>>

\* the slot after writeJSON / writeError: the handler has returned
Respond(slot, status) ==
    [slot EXCEPT !.pc = "idle", !.status = status, !.r = [name |-> slot.r.name],
                 !.version = "", !.desc = NoDesc, !.snapshot = <<>>, !.tarGz = <<>>,
                 !.pre = <<>>]

Busy(p) == \E q \in Procs \ {p} : InFlight(q)

\* the slots once the request in slot p has begun; a request answered at once
\* (validation error, not found) overlaps nothing
Begin(p, slot) ==
    IF slot.pc = "idle" THEN [req EXCEPT ![p] = slot]
    ELSE [q \in Procs |->
            IF q = p
            THEN [slot EXCEPT
                    !.conc = Busy(p),
                    !.dirty = \E o \in Procs \ {p} :
                                 InFlight(o) /\ req[o].op = "create" /\ req[o].r.name = slot.r.name]
            ELSE [req[q] EXCEPT
                    !.conc = Busy(p),
                    !.dirty = @ \/ (InFlight(q) /\ slot.op = "create" /\ req[q].r.name = slot.r.name)]]

\* --------------------------------------------------------------------- main
\* the registry an earlier life of the process leaves behind: the one reached
\* from the empty registry by one CreateResource of name, replicas omitted,
\* all of it run in second t
SeedRequest(name) ==
    [name |-> name, spec |-> [type |-> "vm", size |-> "small", region |-> "", replicas |-> 0]]

SeedRegistryAt(name, t) ==
    LET r == SeedRequest(name)
        desc == ResourceManifest(defaultNamespace, name,
                                 ToKubernetesYAML(r, defaultNamespace, "pending", t), t)
        path == resourceRepoPath(defaultNamespace, name)
        idx == Set(EmptyIndex, defaultNamespace, name,
                   ToKubernetesYAML(r, defaultNamespace, VersionTag(t), t))
    IN  ClientPushCatalog(TagRepo(TagRepo(<<>>, path, VersionTag(t), desc), path, "latest", desc),
                          buildCatalogTarGz(List(idx), <<Key(defaultNamespace, name)>>), t)

\* the earlier life ran in second 0, before the clock of this model starts
SeedRegistry(name) == SeedRegistryAt(name, 0)

Seeds == { <<>>, SeedRegistry(<<"a">>) }

Init ==
    /\ now = 1
    /\ phase = "boot"
    /\ registry \in Seeds
    /\ resources = EmptyIndex
    /\ req = [p \in Procs |-> IdleSlot]
    /\ lastRestore = [ran |-> FALSE]
    /\ retracted = {}
    /\ overlapped = FALSE
    /\ ops = 0
    /\ faults = 0
    /\ restarts = 0

\* main exiting when Restore returns an error
MainExitOnRestoreError(err) == IF err = "" THEN "serving" ELSE "exited"

\* main after catalog.Restore returns err: the error is logged and main goes on
\* to ListenAndServe
MainAfterRestore(err) == "serving"

Tick ==
    /\ now < MaxTime
    /\ now' = now + 1
    /\ UNCHANGED <<phase, registry, resources, req, lastRestore, retracted, overlapped, ops, faults, restarts>>

\* CatalogManager.Restore when listing the repositories fails
RestoreListFail ==
    /\ phase = "boot"
    /\ faults < MaxFaults
    /\ faults' = faults + 1
    /\ lastRestore' = [ran |-> TRUE, err |-> "listing resource repos", failed |-> {},
                       pushed |-> FALSE]
    /\ phase' = MainAfterRestore("listing resource repos")
    /\ UNCHANGED <<now, registry, resources, req, retracted, overlapped, ops, restarts>>

\* CatalogManager.Restore; failed = the repositories whose pull fails,
\* catalogFails = the catalog push at its end fails
Restore(failed, catalogFails) ==
    LET repos == ListResourceRepos(registry)
        restored == RestoreLoop(resources, registry, repos, failed)
        nfail == Cardinality(failed) + (IF catalogFails THEN 1 ELSE 0)
    IN  /\ phase = "boot"
        /\ failed \subseteq { r.Repository : r \in repos }
        /\ faults + nfail <= MaxFaults
        /\ faults' = faults + nfail
        /\ resources' = restored
        /\ \E order \in Orders(restored) :
              registry' = IF catalogFails THEN registry
                          ELSE ClientPushCatalog(registry,
                                                 buildCatalogTarGz(List(restored), order), now)
        /\ lastRestore' = [ran |-> TRUE, err |-> IF catalogFails THEN "pushing catalog" ELSE "",
                           failed |-> failed, pushed |-> TRUE]
        /\ phase' = MainAfterRestore(IF catalogFails THEN "pushing catalog" ELSE "")
        /\ UNCHANGED <<now, req, retracted, overlapped, ops, restarts>>

\* the process dies and is started again: main builds a fresh CatalogManager
Restart ==
    /\ phase = "serving"
    /\ restarts < MaxRestarts
    /\ restarts' = restarts + 1
    /\ phase' = "boot"
    /\ resources' = EmptyIndex
    /\ req' = [p \in Procs |-> IdleSlot]
    /\ lastRestore' = [ran |-> FALSE]
    /\ UNCHANGED <<now, registry, retracted, overlapped, ops, faults>>

\* ----------------------------------------------------------------- handlers
\* a request runs in the first free slot
CanStart(p) ==
    /\ phase = "serving"
    /\ req[p].pc = "idle"
    /\ ops < MaxOps
    /\ \A q \in Procs : q < p => InFlight(q)

\* POST /api/v1/resources, up to the first registry call of PushResource
CreateResource(p, r) ==
    /\ CanStart(p)
    /\ ops' = ops + 1
    /\ IF ~Validate(r)
       THEN /\ req' = Begin(p, Respond([IdleSlot EXCEPT !.op = "create"], StatusBadRequest))
            /\ UNCHANGED <<retracted, overlapped>>
       ELSE LET yamlBytes == ToKubernetesYAML(r, defaultNamespace, "pending", now)
                slot == [IdleSlot EXCEPT
                            !.pc = "copy", !.op = "create",
                            !.r = [r EXCEPT !.spec = Defaulted(r.spec)],
                            !.version = VersionTag(now),
                            !.yamlBytes = yamlBytes,
                            !.desc = ResourceManifest(defaultNamespace, r.name, yamlBytes, now),
                            !.pre = Tags(registry, resourceRepoPath(defaultNamespace, r.name))]
            IN  /\ req' = Begin(p, slot)
                /\ retracted' = retracted \ {r.name}
                /\ overlapped' = (overlapped \/ Busy(p))
    /\ UNCHANGED <<now, phase, registry, resources, lastRestore, faults, restarts>>

\* DELETE /api/v1/resources/{name}, up to the first registry call of PushTombstone
DeleteResource(p, name) ==
    /\ CanStart(p)
    /\ ops' = ops + 1
    /\ LET done(status) == Respond([IdleSlot EXCEPT !.op = "delete", !.r = [name |-> name]], status)
           slot == [IdleSlot EXCEPT
                       !.pc = "copy", !.op = "delete",
                       !.r = [name |-> name],
                       !.version = VersionTag(now),
                       !.desc = TombstoneManifest(defaultNamespace, name, now),
                       !.pre = Tags(registry, resourceRepoPath(defaultNamespace, name))]
           next == IF name = <<>> THEN done(StatusBadRequest)
                   ELSE IF ~Get(resources, defaultNamespace, name).ok THEN done(StatusNotFound)
                   ELSE slot
       IN  /\ req' = Begin(p, next)
           /\ overlapped' = (overlapped \/ (next.pc # "idle" /\ Busy(p)))
    /\ UNCHANGED <<now, phase, registry, resources, lastRestore, retracted, faults, restarts>>

RepoOf(p) == resourceRepoPath(defaultNamespace, req[p].r.name)

\* oras.Copy(store, version, repo, version): the version tag reaches the registry
PushCopy(p) ==
    /\ req[p].pc = "copy"
    /\ registry' = TagRepo(registry, RepoOf(p), req[p].version, req[p].desc)
    /\ req' = [req EXCEPT ![p].pc = "tag"]
    /\ UNCHANGED <<now, phase, resources, lastRestore, retracted, overlapped, ops, faults, restarts>>

\* the handler updating the index before it looks at the error of the push
PushCopyFailAfterIndexUpdate(p) ==
    /\ req[p].pc = "copy"
    /\ faults < MaxFaults
    /\ faults' = faults + 1
    /\ resources' = IF req[p].op = "create"
                    THEN Set(resources, defaultNamespace, req[p].r.name, req[p].yamlBytes)
                    ELSE Delete(resources, defaultNamespace, req[p].r.name)
    /\ req' = [req EXCEPT ![p] = Respond(@, StatusInternalServerError)]
    /\ UNCHANGED <<now, phase, registry, lastRestore, retracted, overlapped, ops, restarts>>

PushCopyFail(p) ==
    /\ req[p].pc = "copy"
    /\ faults < MaxFaults
    /\ faults' = faults + 1
    /\ req' = [req EXCEPT ![p] = Respond(@, StatusInternalServerError)]
    /\ UNCHANGED <<now, phase, registry, resources, lastRestore, retracted, overlapped, ops, restarts>>

\* repo.Tag(manifestDesc, "latest")
TagLatest(p) ==
    /\ req[p].pc = "tag"
    /\ registry' = TagRepo(registry, RepoOf(p), "latest", req[p].desc)
    /\ req' = [req EXCEPT ![p].pc = "index"]
    /\ UNCHANGED <<now, phase, resources, lastRestore, retracted, overlapped, ops, faults, restarts>>

TagLatestFail(p) ==
    /\ req[p].pc = "tag"
    /\ faults < MaxFaults
    /\ faults' = faults + 1
    /\ req' = [req EXCEPT ![p] = Respond(@, StatusInternalServerError)]
    /\ UNCHANGED <<now, phase, registry, resources, lastRestore, retracted, overlapped, ops, restarts>>

\* the YAML with the real version, then catalog.Set; or catalog.Delete
UpdateIndex(p) ==
    /\ req[p].pc = "index"
    /\ IF req[p].op = "create"
       THEN LET yamlBytes == ToKubernetesYAML(req[p].r, defaultNamespace, req[p].version, now)
            IN  /\ resources' = Set(resources, defaultNamespace, req[p].r.name, yamlBytes)
                /\ req' = [req EXCEPT ![p].pc = "snapshot", ![p].yamlBytes = yamlBytes]
       ELSE /\ resources' = Delete(resources, defaultNamespace, req[p].r.name)
            /\ req' = [req EXCEPT ![p].pc = "snapshot"]
    /\ UNCHANGED <<now, phase, registry, lastRestore, retracted, overlapped, ops, faults, restarts>>

\* CatalogManager.PushCatalog: the copy taken under the read lock, and the tarball
SnapshotCatalog(p) ==
    /\ req[p].pc = "snapshot"
    /\ \E order \in Orders(resources) :
          req' = [req EXCEPT ![p].pc = "catalog",
                             ![p].snapshot = List(resources),
                             ![p].tarGz = buildCatalogTarGz(List(resources), order)]
    /\ UNCHANGED <<now, phase, registry, resources, lastRestore, retracted, overlapped, ops, faults, restarts>>

FinalStatus(p) == IF req[p].op = "create" THEN StatusCreated ELSE StatusOK

\* history: a finished retract that no publish of the name overlapped
Retracted(p) ==
    IF req[p].op = "delete" /\ ~req[p].dirty
    THEN retracted \cup {req[p].r.name}
    ELSE retracted

\* Client.PushCatalog, then the response
PushCatalog(p) ==
    /\ req[p].pc = "catalog"
    /\ registry' = ClientPushCatalog(registry, req[p].tarGz, now)
    /\ req' = [req EXCEPT ![p] = Respond(@, FinalStatus(p))]
    /\ retracted' = Retracted(p)
    /\ UNCHANGED <<now, phase, resources, lastRestore, overlapped, ops, faults, restarts>>

\* the catalog push fails: logged as a warning, the response is unchanged
PushCatalogFail(p) ==
    /\ req[p].pc = "catalog"
    /\ faults < MaxFaults
    /\ faults' = faults + 1
    /\ req' = [req EXCEPT ![p] = Respond(@, FinalStatus(p))]
    /\ retracted' = Retracted(p)
    /\ UNCHANGED <<now, phase, registry, resources, lastRestore, overlapped, ops, restarts>>

Next ==
    \/ Tick
    \/ RestoreListFail
    \/ \E failed \in SUBSET DOMAIN registry, catalogFails \in BOOLEAN : Restore(failed, catalogFails)
    \/ Restart
    \/ \E p \in Procs, r \in Requests : CreateResource(p, r)
    \/ \E p \in Procs, name \in PathNames : DeleteResource(p, name)
    \/ \E p \in Procs : PushCopy(p)
    \/ \E p \in Procs : PushCopyFail(p)
    \/ \E p \in Procs : TagLatest(p)
    \/ \E p \in Procs : TagLatestFail(p)
    \/ \E p \in Procs : UpdateIndex(p)
    \/ \E p \in Procs : SnapshotCatalog(p)
    \/ \E p \in Procs : PushCatalog(p)
    \/ \E p \in Procs : PushCatalogFail(p)

Spec == Init /\ [][Next]_vars

\* ------------------------------------------------------------------ startup
\* The startup of main against the registries it can find: the registry is
\* shared, so besides what this program pushed it can hold what other clients
\* pushed.  Each repository is a path with its tags.
LiveRepo(name) ==
    [path |-> resourceRepoPath(defaultNamespace, name),
     tags |-> SeedRegistry(name)[resourceRepoPath(defaultNamespace, name)]]

\* a resource published and then retracted
TombstonedRepo(name) ==
    [path |-> resourceRepoPath(defaultNamespace, name),
     tags |-> ("latest" :> TombstoneManifest(defaultNamespace, name, 0))
              @@ LiveRepo(name).tags]

\* a publish whose Copy landed and whose Tag of latest failed: no latest
UntaggedRepo(name) ==
    [path |-> resourceRepoPath(defaultNamespace, name),
     tags |-> (VersionTag(0) :> LiveRepo(name).tags[VersionTag(0)])]

\* another client's artifact: a manifest without layers
MalformedRepo(name) ==
    [path |-> resourceRepoPath(defaultNamespace, name),
     tags |-> ("latest" :> [artifactType |-> ArtifactTypeResource, layers |-> <<>>,
                            annotations |-> <<>>])]

\* another client's repository right under the prefix: a suffix of one segment
OneSegmentRepo(name) ==
    [path |-> repoPrefix \o <<"/">> \o name,
     tags |-> LiveRepo(name).tags]

StartupRepos ==
    { LiveRepo(<<"a">>),
      TombstonedRepo(<<"b">>),
      UntaggedRepo(<<"u">>),
      MalformedRepo(<<"m">>),
      OneSegmentRepo(<<"x">>),
      LiveRepo(<<"a", "/", "b">>) }    \* POST with name "a/b"

RegistryOf(repos) ==
    [path \in { r.path : r \in repos } |-> (CHOOSE r \in repos : r.path = path).tags]

InitStartup ==
    /\ now = 1
    /\ phase = "boot"
    /\ registry \in { RegistryOf(repos) : repos \in SUBSET StartupRepos }
    /\ resources = EmptyIndex
    /\ req = [p \in Procs |-> IdleSlot]
    /\ lastRestore = [ran |-> FALSE]
    /\ retracted = {}
    /\ overlapped = FALSE
    /\ ops = 0
    /\ faults = 0
    /\ restarts = 0

\* main alone: no request arrives
NextStartup ==
    \/ Tick
    \/ RestoreListFail
    \/ \E failed \in SUBSET DOMAIN registry, catalogFails \in BOOLEAN : Restore(failed, catalogFails)
    \/ Restart

SpecStartup == InitStartup /\ [][NextStartup]_vars

\* ------------------------------------------------------ the index, lock by lock
\* The CatalogManager alone, at the grain of its RWMutex: goroutines call Set,
\* Delete, List and PushCatalog on one manager.  A reader copies the map entry
\* by entry while it holds the read lock; a writer's critical section is its
\* single map write.  Here a slot of req is a goroutine inside the manager.
IndexNames == { <<"a">>, <<"a", "-", "b">>, <<"a", "/", "b">> }

IndexManifest(name, n) ==
    ToKubernetesYAML([name |-> name,
                      spec |-> [type |-> "vm", size |-> "small", region |-> "", replicas |-> n]],
                     defaultNamespace, VersionTag(0), 0)

IndexManifests(name) == { IndexManifest(name, n) : n \in {1, 3} }

Indexes ==
    UNION { { idx \in [ { Key(defaultNamespace, name) : name \in names } ->
                          UNION { IndexManifests(name) : name \in names } ] :
                \A name \in names : idx[Key(defaultNamespace, name)] \in IndexManifests(name) } :
            names \in SUBSET IndexNames }

IdleReader ==
    [pc |-> "idle", op |-> "none",
     todo |-> {},        \* the keys the range loop has yet to visit
     snapshot |-> <<>>,  \* the map being filled, then the map the caller holds
     base |-> <<>>,      \* history: cm.resources when the read lock was taken
     tarGz |-> <<>>]

mainOnly == <<now, phase, registry, lastRestore, retracted, overlapped, faults, restarts>>

InitIndex ==
    /\ now = 1
    /\ phase = "serving"
    /\ registry = <<>>
    /\ resources \in Indexes
    /\ req = [p \in Procs |-> IdleReader]
    /\ lastRestore = [ran |-> FALSE]
    /\ retracted = {}
    /\ overlapped = FALSE
    /\ ops = 0
    /\ faults = 0
    /\ restarts = 0

\* a mutex that lets a writer in while readers hold the read lock
LockIgnoringReaders(slots) == TRUE

\* PushCatalog keeping the read lock until the registry call has returned
LockHeldThroughPush(slots) ==
    \A p \in Procs : slots[p].pc # "copying" /\ ~(slots[p].op = "push" /\ slots[p].pc # "idle")

\* cm.mu.Lock() returns: no goroutine holds the read lock (a writer never holds
\* the lock across a step)
CanLock(slots) == \A p \in Procs : slots[p].pc # "copying"

\* cm.Set(namespace, name, manifest), from Lock to Unlock
CallSet(p, name, manifest) ==
    /\ req[p].pc = "idle" /\ ops < MaxOps
    /\ CanLock(req)
    /\ resources' = Set(resources, defaultNamespace, name, manifest)
    /\ ops' = ops + 1
    /\ UNCHANGED <<req, mainOnly>>

\* cm.Delete(namespace, name), from Lock to Unlock
CallDelete(p, name) ==
    /\ req[p].pc = "idle" /\ ops < MaxOps
    /\ CanLock(req)
    /\ resources' = Delete(resources, defaultNamespace, name)
    /\ ops' = ops + 1
    /\ UNCHANGED <<req, mainOnly>>

\* cm.Get(namespace, name), from RLock to RUnlock: a read lock is there for
\* the taking, no writer holding the lock across a step
CallGet(p, name) ==
    /\ req[p].pc = "idle" /\ ops < MaxOps
    /\ ops' = ops + 1
    /\ UNCHANGED <<resources, req, mainOnly>>

\* cm.mu.RLock() and the make of the fresh map, in List (op = "list") or in
\* PushCatalog (op = "push")
RLock(p, op) ==
    /\ req[p].pc = "idle" /\ ops < MaxOps
    /\ req' = [req EXCEPT ![p] = [IdleReader EXCEPT !.pc = "copying", !.op = op,
                                                     !.todo = DOMAIN resources,
                                                     !.base = resources]]
    /\ ops' = ops + 1
    /\ UNCHANGED <<resources, mainOnly>>

\* one round of `for k, v := range cm.resources { result[k] = v }`
CopyEntry(p) ==
    /\ req[p].pc = "copying"
    /\ \E k \in req[p].todo :
          req' = [req EXCEPT
                    ![p].todo = @ \ {k},
                    ![p].snapshot = IF k \in DOMAIN resources
                                    THEN (k :> resources[k]) @@ @
                                    ELSE @]
    /\ UNCHANGED <<resources, ops, mainOnly>>

\* the range loop is over: cm.mu.RUnlock()
RUnlock(p) ==
    /\ req[p].pc = "copying" /\ req[p].todo = {}
    /\ req' = [req EXCEPT ![p].pc = "copied"]
    /\ UNCHANGED <<resources, ops, mainOnly>>

\* the map the caller of List, or buildCatalogTarGz in PushCatalog, holds: the
\* fresh map, not cm.resources
Held(p) == req[p].snapshot

\* buildCatalogTarGz(resources) in PushCatalog
Assemble(p) ==
    /\ req[p].pc = "copied" /\ req[p].op = "push"
    /\ \E order \in Orders(Held(p)) :
          req' = [req EXCEPT ![p].pc = "assembled",
                             ![p].tarGz = buildCatalogTarGz(Held(p), order)]
    /\ UNCHANGED <<resources, ops, mainOnly>>

\* List returns to its caller; in PushCatalog, which has been in the registry
\* call cm.ociClient.PushCatalog since the tarball was assembled, the call
\* returns
Return(p) ==
    /\ \/ req[p].pc = "copied" /\ req[p].op = "list"
       \/ req[p].pc = "assembled"
    /\ req' = [req EXCEPT ![p] = IdleReader]
    /\ UNCHANGED <<resources, ops, mainOnly>>

NextIndex ==
    \/ \E p \in Procs, name \in IndexNames :
          \E manifest \in IndexManifests(name) : CallSet(p, name, manifest)
    \/ \E p \in Procs, name \in IndexNames : CallDelete(p, name)
    \/ \E p \in Procs, name \in IndexNames : CallGet(p, name)
    \/ \E p \in Procs, op \in {"list", "push"} : RLock(p, op)
    \/ \E p \in Procs : CopyEntry(p)
    \/ \E p \in Procs : RUnlock(p)
    \/ \E p \in Procs : Assemble(p)
    \/ \E p \in Procs : Return(p)

SpecIndex == InitIndex /\ [][NextIndex]_vars

TypeOK ==
    /\ now \in 1..MaxTime
    /\ phase \in {"boot", "serving"}
    /\ ops \in 0..MaxOps
    /\ faults \in 0..MaxFaults
    /\ restarts \in 0..MaxRestarts
    /\ retracted \subseteq Names
    /\ overlapped \in BOOLEAN

\* ------------------------------------------------------- the create request
\* POST /api/v1/resources over the values a request body can carry, against
\* a registry that answers every call
CreateInputs ==
    { [name |-> n, spec |-> [type |-> ty, size |-> sz, region |-> "", replicas |-> k]] :
        n \in { <<>>, <<"a">> }, ty \in { "vm", "container" }, sz \in { "small", "huge" },
        k \in { -1, 0, 1, 10, 11 } }

InitCreate ==
    /\ now = 1
    /\ phase = "serving"
    /\ registry = <<>>
    /\ resources = EmptyIndex
    /\ req = [p \in Procs |-> IdleSlot]
    /\ lastRestore = [ran |-> FALSE]
    /\ retracted = {}
    /\ overlapped = FALSE
    /\ ops = 0
    /\ faults = 0
    /\ restarts = 0

NextCreate ==
    \/ \E p \in Procs, r \in CreateInputs : CreateResource(p, r)
    \/ \E p \in Procs : PushCopy(p)
    \/ \E p \in Procs : TagLatest(p)
    \/ \E p \in Procs : UpdateIndex(p)
    \/ \E p \in Procs : SnapshotCatalog(p)
    \/ \E p \in Procs : PushCatalog(p)

SpecCreate == InitCreate /\ [][NextCreate]_vars

\* ------------------------------------------------------------------ claims
ns == defaultNamespace

Quiescent == phase = "serving" /\ \A p \in Procs : ~InFlight(p)

Latest(name) == PullResource(registry, ns, name, "latest")

\* the resource's latest tag exists and resolves to a version that is no tombstone
LatestLive(name) ==
    /\ Latest(name).err = ""
    /\ AnnotationValue(Latest(name).annotations, AnnotationResourceDeleted) # <<"true">>

\* what Restore builds from a cleared index when every registry call succeeds
Rebuilt == RestoreLoop(EmptyIndex, registry, ListResourceRepos(registry), {})

\* the version tags of a repository
VersionTags(tags) == DOMAIN tags \ {"latest"}

Returns(p) == InFlight(p) /\ req'[p].pc = "idle" /\ phase' = "serving"

\* C1: in every quiescent state of a run in which no registry call has failed,
\* a resource has an index entry iff its latest tag exists and resolves to a
\* version that is no tombstone.
C1_IndexMatchesLatest ==
    (Quiescent /\ faults = 0) =>
        \A name \in Names : Get(resources, ns, name).ok <=> LatestLive(name)

\* C2: after successful publishes and retracts that never overlapped, clearing
\* the index and running Restore gives back the index held before: the same
\* keys and the same bytes per key.
C2_IndexDerivable ==
    (Quiescent /\ faults = 0 /\ ~overlapped) => Rebuilt = resources

\* C3: when PushResource returns successfully, pulling the resource's latest
\* returns the pushed bytes and annotations carrying the pushed name, namespace
\* and the version tag PushResource returns.
C3_RoundTrip ==
    [][\A p \in Procs :
        (req[p].pc = "tag" /\ req[p].op = "create" /\ req'[p].pc = "index") =>
            LET pulled == PullResource(registry', ns, req[p].r.name, "latest")
            IN  /\ pulled.err = ""
                /\ pulled.data = req[p].yamlBytes
                /\ AnnotationValue(pulled.annotations, AnnotationResourceName) = req[p].r.name
                /\ AnnotationValue(pulled.annotations, AnnotationResourceNamespace) = ns
                /\ AnnotationValue(pulled.annotations, AnnotationResourceVersion)
                      = <<req'[p].version>>]_vars

C3_Witness ==
    \E p \in Procs :
        /\ req[p].pc = "index" /\ req[p].op = "create"
        /\ Latest(req[p].r.name).err = ""
        /\ Latest(req[p].r.name).data = req[p].yamlBytes
        /\ req[p].pre # <<>>

\* C4: a publish of A that follows a finished publish of A with another spec,
\* all calls succeeding and no request overlapping, leaves the index holding the
\* second manifest, both versions reachable under their own version tags, the
\* two distinct, and latest resolving to the second; in every timing of the two.
C4_TwoVersions ==
    \A p \in Procs :
        LET tags == Tags(registry, RepoOf(p))
            first == req[p].pre["latest"]
            firstTag == AnnotationValue(first.layers[1].annotations, AnnotationResourceVersion)[1]
        IN  ( /\ req[p].pc = "catalog" /\ req[p].op = "create"
              /\ faults = 0 /\ ~overlapped /\ restarts = 0
              /\ "latest" \in DOMAIN req[p].pre
              /\ AnnotationResourceDeleted \notin DOMAIN first.annotations
              /\ first.layers[1].data.spec # req[p].r.spec )
            => /\ Get(resources, ns, req[p].r.name) = [ok |-> TRUE, data |-> req[p].yamlBytes]
               /\ firstTag \in DOMAIN tags /\ tags[firstTag] = first
               /\ req[p].version \in DOMAIN tags /\ tags[req[p].version] = req[p].desc
               /\ first # req[p].desc
               /\ tags["latest"] = req[p].desc

\* C5: once a version tag resolves to a digest it resolves to that digest in
\* every later state.
C5_VersionTagsImmutable ==
    [][\A path \in DOMAIN registry : \A tag \in VersionTags(registry[path]) :
          /\ path \in DOMAIN registry'
          /\ tag \in DOMAIN registry'[path]
          /\ registry'[path][tag] = registry[path][tag]]_vars

\* C6: once a retract of a name has finished successfully, with no publish of
\* that name during or after it, Get reports the name absent in every later
\* state, those after a restart and Restore included, and a Restore run from
\* that state does not bring it back.
C6_TombstoneExclusion ==
    \A name \in retracted :
        /\ ~Get(resources, ns, name).ok
        /\ ~Get(Rebuilt, ns, name).ok

\* a retract has finished, the process has restarted and Restore has read the
\* retracted resource's tombstone
C6_Witness ==
    /\ retracted # {}
    /\ restarts > 0 /\ phase = "serving" /\ lastRestore.err = "" /\ lastRestore.failed = {}
    /\ \A p \in Procs : req[p] = IdleSlot
    /\ \A name \in retracted :
          /\ Latest(name).err = ""
          /\ \E r \in ListResourceRepos(registry) : r.Name = name

\* C7: a successful retract of a live resource, no request overlapping, removes
\* the entry from the index, adds exactly one version tag, a tombstone, to the
\* repository while keeping every earlier version tag, and leaves latest
\* resolving to that tombstone.
C7_RetractAppendsTombstone ==
    \A p \in Procs :
        LET tags == Tags(registry, RepoOf(p))
        IN  ( /\ req[p].pc = "catalog" /\ req[p].op = "delete"
              /\ faults = 0 /\ ~overlapped /\ restarts = 0 )
            => /\ ~Get(resources, ns, req[p].r.name).ok
               /\ req[p].version \notin DOMAIN req[p].pre
               /\ VersionTags(tags) = VersionTags(req[p].pre) \cup {req[p].version}
               /\ \A t \in VersionTags(req[p].pre) : tags[t] = req[p].pre[t]
               /\ tags[req[p].version] = req[p].desc
               /\ AnnotationValue(req[p].desc.annotations, AnnotationResourceDeleted) = <<"true">>
               /\ tags["latest"] = req[p].desc

\* C8: when two publishes of different resources that ran concurrently have
\* both completed, the index holds both keys, each with the manifest of its
\* own publish.
C8_ConcurrentIndependence ==
    \A p, q \in Procs :
        ( /\ p # q /\ ~InFlight(p) /\ ~InFlight(q)
          /\ req[p].op = "create" /\ req[q].op = "create"
          /\ req[p].status = StatusCreated /\ req[q].status = StatusCreated
          /\ req[p].conc /\ req[q].conc
          /\ req[p].r.name # req[q].r.name )
        => /\ Get(resources, ns, req[p].r.name) = [ok |-> TRUE, data |-> req[p].yamlBytes]
           /\ Get(resources, ns, req[q].r.name) = [ok |-> TRUE, data |-> req[q].yamlBytes]

C8_Witness ==
    /\ Quiescent
    /\ \A p \in Procs : req[p].op = "create" /\ req[p].status = StatusCreated /\ req[p].conc
    /\ req[1].r.name # req[2].r.name
    /\ Cardinality(DOMAIN resources) = 2

\* C9: no publish or retract returns, with whatever outcome, while the
\* repository holds the version tag it has just written and latest is absent or
\* still resolves to a version that was there before the request began.
C9_LatestMovedOnReturn ==
    [][\A p \in Procs :
        LET tags == Tags(registry', RepoOf(p))
            older == { req[p].pre[t] : t \in DOMAIN req[p].pre } \ {req[p].desc}
        IN  ( /\ Returns(p)
              /\ req[p].version \in DOMAIN tags
              /\ tags[req[p].version] = req[p].desc
              /\ req[p].pc \in {"tag", "index", "snapshot", "catalog"} )
            => "latest" \in DOMAIN tags /\ tags["latest"] \notin older]_vars

\* C10: a second Restore run straight after the first, with no publish or
\* retract in between and every pull failing again that failed the first time,
\* leaves the index with the same keys and the same bytes.
C10_RestoreIdempotent ==
    [][(phase = "boot" /\ phase' = "serving" /\ lastRestore'.err # "listing resource repos") =>
          LET repos == ListResourceRepos(registry')
          IN  \A failed \in SUBSET { r.Repository : r \in repos } :
                 lastRestore'.failed \subseteq failed =>
                    RestoreLoop(resources', registry', repos, failed) = resources']_vars

C10_Witness ==
    /\ phase = "serving" /\ lastRestore.ran /\ lastRestore.err = "" /\ lastRestore.failed = {}
    /\ ops = 0
    /\ resources # EmptyIndex
    /\ RestoreLoop(resources, registry, ListResourceRepos(registry), {}) = resources

\* C11: whenever Restore has run at startup, whatever became of listing the
\* repositories and pulling the resources, it has attempted a catalog publish
\* before it returned.
C11_RestoreAlwaysPublishes ==
    (phase = "serving" /\ lastRestore.ran) => lastRestore.pushed

\* the repositories Restore lists whose pull of latest fails
FailedPull(reg, failed) ==
    { repo \in ListResourceRepos(reg) :
        \/ repo.Repository \in failed
        \/ PullResource(reg, repo.Namespace, repo.Name, "latest").err # "" }

\* C12: in a Restore run that got the list of repositories, every listed
\* resource whose pull of latest fails (unreachable, no latest, no layers) is
\* left out of the index, every other listed resource that is no tombstone is
\* in the index with the pulled bytes, and the catalog publish is attempted.
C12_PullFailureSkipsOne ==
    [][(phase = "boot" /\ phase' # "boot" /\ lastRestore'.err # "listing resource repos") =>
          /\ \A repo \in ListResourceRepos(registry) :
                LET pulled == PullResource(registry, repo.Namespace, repo.Name, "latest")
                IN  IF repo \in FailedPull(registry, lastRestore'.failed)
                    THEN ~Get(resources', repo.Namespace, repo.Name).ok
                    ELSE AnnotationValue(pulled.annotations, AnnotationResourceDeleted) # <<"true">>
                         => Get(resources', repo.Namespace, repo.Name)
                               = [ok |-> TRUE, data |-> pulled.data]
          /\ lastRestore'.pushed]_vars

\* a Restore run in which one pull failed on the network, another resource's
\* manifest had no layers, and a third resource was restored
C12_Witness ==
    /\ phase = "serving" /\ lastRestore.ran /\ lastRestore.err = ""
    /\ lastRestore.failed # {}
    /\ \E repo \in ListResourceRepos(registry) :
          /\ PullResource(registry, repo.Namespace, repo.Name, "latest").err = "manifest has no layers"
          /\ repo.Repository \notin lastRestore.failed
    /\ resources # EmptyIndex
    /\ lastRestore.pushed

\* C13: when the registry is unavailable at startup, so that Restore returns
\* the error of its first registry call, main does not exit: the process is
\* serving afterwards, with an empty index.
C13_StartsEmptyWhenUnavailable ==
    [][(phase = "boot" /\ lastRestore'.ran /\ lastRestore'.err = "listing resource repos") =>
          /\ phase' = "serving"
          /\ resources' = EmptyIndex]_vars

\* Restore failed on a registry that holds a live resource, and a request is
\* being served
C13_Witness ==
    /\ phase = "serving" /\ lastRestore.ran /\ lastRestore.err = "listing resource repos"
    /\ resources = EmptyIndex
    /\ Rebuilt # EmptyIndex
    /\ \E p \in Procs : InFlight(p)

\* C14: a publish or retract on whose behalf a registry call fails (the
\* resource push, the tombstone push or the catalog republish) is reported to
\* the caller as failed.
C14_RegistryFailureSurfaced ==
    [][\A p \in Procs :
          (Returns(p) /\ faults' > faults) => req'[p].status \notin {StatusOK, StatusCreated}]_vars

\* the archive the catalog's latest resolves to
PublishedCatalog == registry[catalogRepoPath]["latest"].layers[1].data

\* every archive the assembler can build from an index
Assemblies(idx) == { buildCatalogTarGz(List(idx), order) : order \in Orders(idx) }

\* the published catalog is not the assembly of the index
CatalogStale ==
    /\ catalogRepoPath \in DOMAIN registry
    /\ PublishedCatalog \notin Assemblies(resources)

\* the index holds the effect of the finished request of slot p
Effect(p) ==
    IF req[p].op = "create"
    THEN Get(resources, ns, req[p].r.name) = [ok |-> TRUE, data |-> req[p].yamlBytes]
    ELSE ~Get(resources, ns, req[p].r.name).ok

\* two mutations of different resources ran concurrently, every registry call
\* succeeded, and both have completed
BothCompleted(p, q) ==
    /\ p # q /\ Quiescent /\ faults = 0
    /\ req[p].status \in {StatusOK, StatusCreated} /\ req[q].status \in {StatusOK, StatusCreated}
    /\ req[p].conc /\ req[q].conc
    /\ req[p].r.name # req[q].r.name

\* C15: two concurrent mutations whose registry calls all succeed can complete
\* with the published catalog differing from the assembly of the final index
\* (the witness); whenever they do, the index still holds the effect of both.
C15_LostUpdate ==
    \A p, q \in Procs :
        (BothCompleted(p, q) /\ CatalogStale) => (Effect(p) /\ Effect(q))

C15_Witness ==
    /\ BothCompleted(1, 2)
    /\ CatalogStale
    /\ Effect(1) /\ Effect(2)

\* C16: the map a List or a PushCatalog copies is, entry for entry, the index
\* as it stood when the read lock was taken: the index does not change while
\* the copy is under way, and once the copy is handed over it is that index in
\* full, whatever Set or Delete has done since; the archive PushCatalog
\* assembles is built from it.
C16_SnapshotAtomic ==
    \A p \in Procs :
        /\ req[p].pc = "copying" =>
              /\ resources = req[p].base
              /\ req[p].snapshot = [k \in DOMAIN req[p].base \ req[p].todo |-> req[p].base[k]]
        /\ req[p].pc \in {"copied", "assembled"} => Held(p) = req[p].base
        /\ req[p].pc = "assembled" => req[p].tarGz \in Assemblies(req[p].base)

\* a snapshot of two entries is held while a Set or Delete has changed the
\* index since
C16_Witness ==
    \E p \in Procs :
        /\ req[p].pc \in {"copied", "assembled"}
        /\ Cardinality(DOMAIN Held(p)) = 2
        /\ Held(p) = req[p].base
        /\ resources # req[p].base

\* the path of the manifest-list file, and of the file of an entry
ListPath == <<"manifests", "/", "kustomization", ".yaml">>

FileOf(key) == ReplaceAll(key, "/", "-") \o <<".yaml">>

\* the files of an archive: its distinct paths
Files(archive) == { archive[i].name : i \in 1..Len(archive) }

\* C17: the archive assembled from an entry set E contains exactly |E|
\* resource files, one per entry and carrying that entry's bytes, and exactly
\* one manifest-list file; the manifest list names exactly the files of the
\* entries of E, and is the empty-list marker when E is empty.
C17_AggregateCorrect ==
    \A p \in Procs :
        req[p].pc = "assembled" =>
            LET E == Held(p)
                archive == req[p].tarGz
                lists == { i \in 1..Len(archive) : archive[i].name = ListPath }
                lines == archive[CHOOSE i \in lists : TRUE].data.lines
            IN  /\ Cardinality(Files(archive) \ {ListPath}) = Cardinality(DOMAIN E)
                /\ \A k \in DOMAIN E :
                      \E i \in 1..Len(archive) :
                          /\ archive[i].name = <<"manifests", "/">> \o FileOf(k)
                          /\ archive[i].data = E[k]
                /\ Cardinality(lists) = 1
                /\ IF DOMAIN E = {}
                   THEN lines = << <<"[]">> >>
                   ELSE /\ Len(lines) = Cardinality(DOMAIN E)
                        /\ { lines[i] : i \in 1..Len(lines) } = { FileOf(k) : k \in DOMAIN E }

\* the byte order of the tokens the keys are made of
TokenRank(token) ==
    CASE token = "-" -> 45
      [] token = "/" -> 47
      [] token = "a" -> 97
      [] token = "b" -> 98
      [] token = "default" -> 100

\* s sorts before t
RECURSIVE Before(_, _)
Before(s, t) ==
    IF t = <<>> THEN FALSE
    ELSE IF s = <<>> THEN TRUE
    ELSE IF Head(s) = Head(t) THEN Before(Tail(s), Tail(t))
    ELSE TokenRank(Head(s)) < TokenRank(Head(t))

\* the keys of E in lexicographic order
SortedKeys(E) == CHOOSE order \in Orders(E) :
                    \A i, j \in 1..Len(order) : i < j => Before(order[i], order[j])

\* C18: every run of the assembler on an entry set emits the resource files in
\* the archive, and the filenames in the manifest list, in one and the same
\* order: the lexicographic order of the keys.
C18_AssemblyDeterministic ==
    \A p \in Procs :
        req[p].pc = "assembled" =>
            req[p].tarGz = buildCatalogTarGz(Held(p), SortedKeys(Held(p)))

\* the resource files of an archive are exactly the entries of a snapshot
BuiltOnlyFrom(archive, snapshot) ==
    /\ \A i \in 1..Len(archive) :
          archive[i].name # ListPath =>
              \E k \in DOMAIN snapshot :
                  /\ archive[i].name = <<"manifests", "/">> \o FileOf(k)
                  /\ archive[i].data = snapshot[k]
    /\ \A k \in DOMAIN snapshot :
          \E i \in 1..Len(archive) :
              /\ archive[i].name = <<"manifests", "/">> \o FileOf(k)
              /\ archive[i].data = snapshot[k]

\* C19: the catalog repository never has a tag other than latest, and after
\* each successful catalog push, by a request or by Restore, latest resolves to
\* an archive whose resource files are exactly the entries of the snapshot that
\* push took.
C19_CatalogVersionless ==
    /\ [](DOMAIN Tags(registry, catalogRepoPath) \subseteq {"latest"})
    /\ [][/\ DOMAIN Tags(registry', catalogRepoPath) \subseteq {"latest"}
          /\ \A p \in Procs :
                (req[p].pc = "catalog" /\ Returns(p) /\ faults' = faults) =>
                    BuiltOnlyFrom(PublishedCatalog', req[p].snapshot)
          /\ (phase = "boot" /\ phase' # "boot" /\ lastRestore'.err = "") =>
                BuiltOnlyFrom(PublishedCatalog', resources')]_vars

\* a retract of the only resource has replaced a catalog that held the
\* resource's file by one that holds none
C19_Witness ==
    /\ Quiescent /\ faults = 0 /\ ~overlapped /\ restarts = 0
    /\ req[1].op = "delete" /\ req[1].status = StatusOK
    /\ registry # <<>> /\ Files(PublishedCatalog) = {ListPath}
    /\ DOMAIN registry[catalogRepoPath] = {"latest"}

\* the number of '/'-separated segments of a string
Segments(s) == Cardinality({ i \in 1..Len(s) : s[i] = "/" }) + 1

\* C20: Restore gives an index entry only to a repository whose suffix under
\* the resource prefix has exactly two segments; a suffix of one segment, or of
\* three or more, is skipped without failing Restore and gives no entry.
C20_TwoSegmentsOnly ==
    (phase = "serving" /\ lastRestore.ran /\ lastRestore.err # "listing resource repos") =>
        /\ \A k \in DOMAIN resources : Segments(k) = 2
        /\ \A repo \in ListResourceRepos(registry) :
              Segments(TrimPrefix(repo.Repository, repoPrefix \o <<"/">>)) = 2

\* the manifests published in the resource repositories
PublishedManifests ==
    UNION { { registry[path][tag].layers[1].data : tag \in DOMAIN registry[path] } :
            path \in { q \in DOMAIN registry : HasPrefix(q, repoPrefix \o <<"/">>) } }

\* C21: every manifest a create request gets accepted and published, in the
\* registry or in the index, has replicas between 1 and 10; a request answered
\* 201 had replicas in 1..10 or omitted (0, defaulted to 1).
C21_ReplicasInRange ==
    /\ \A m \in PublishedManifests : m.spec.replicas \in 1..10
    /\ \A k \in DOMAIN resources : resources[k].spec.replicas \in 1..10
    /\ \A p \in Procs : req[p].status = StatusCreated => req[p].yamlBytes.spec.replicas \in 1..10

\* two requests on one resource ran concurrently, every registry call
\* succeeded, and both have completed
SameResourceCompleted(p, q) ==
    /\ p # q /\ Quiescent /\ faults = 0
    /\ req[p].status \in {StatusOK, StatusCreated} /\ req[q].status \in {StatusOK, StatusCreated}
    /\ req[p].conc /\ req[q].conc
    /\ req[p].r.name = req[q].r.name

\* C22: after two concurrent publishes of one resource, with different specs,
\* have both completed, every registry call succeeding, the index entry of the
\* resource and the version its latest resolves to carry the same spec: they
\* come from the same request.
C22_IndexAndLatestSameRequest ==
    \A p, q \in Procs :
        ( /\ SameResourceCompleted(p, q)
          /\ req[p].op = "create" /\ req[q].op = "create"
          /\ req[p].yamlBytes.spec # req[q].yamlBytes.spec )
        => /\ Get(resources, ns, req[p].r.name).ok
           /\ Latest(req[p].r.name).err = ""
           /\ Get(resources, ns, req[p].r.name).data.spec = Latest(req[p].r.name).data.spec

\* the version tag a manifest was pushed under, from its layer's annotation
OwnTag(manifest) ==
    AnnotationValue(manifest.layers[1].annotations, AnnotationResourceVersion)[1]

\* C23: after two overlapping pushes (publish or retract) to one resource have
\* both completed, latest resolves to an artifact that its own version tag
\* resolves to as well: latest never points at an artifact reachable under no
\* version tag.
C23_LatestUnderVersionTag ==
    \A p, q \in Procs :
        SameResourceCompleted(p, q) =>
            LET tags == Tags(registry, RepoOf(p))
            IN  /\ "latest" \in DOMAIN tags
                /\ OwnTag(tags["latest"]) \in DOMAIN tags
                /\ tags[OwnTag(tags["latest"])] = tags["latest"]

\* C24: a tombstone is pushed only for a live resource: whenever PushTombstone
\* moves latest to its tombstone, latest resolved to a live version just
\* before (the chain neither starts with a tombstone nor gets a tombstone on
\* top of a tombstone); and a retract answered not-found changes neither the
\* registry nor the index.
C24_TombstoneOnlyForLive ==
    [][/\ \A p \in Procs :
             (req[p].pc = "tag" /\ req[p].op = "delete" /\ req'[p].pc = "index") =>
                 LatestLive(req[p].r.name)
       /\ \A p \in Procs :
             (~InFlight(p) /\ req'[p].op = "delete" /\ req'[p].status = StatusNotFound
                /\ req'[p] # req[p] /\ phase' = "serving") =>
                 (registry' = registry /\ resources' = resources)]_vars

\* C25: a publish or retract whose resource or tombstone push returns an error
\* has changed neither the index nor the published catalog: no step of a
\* request, from its start up to and including the return of its push, changes
\* the index or what the catalog's latest resolves to.
C25_FailedPushFrame ==
    [][\A p \in Procs :
          ( /\ phase = "serving" /\ phase' = "serving"
            /\ req'[p] # req[p]
            /\ req[p].pc \in {"idle", "copy", "tag"}
            /\ req'[p].pc \in {"idle", "copy", "tag"} )
          => /\ resources' = resources
             /\ Tags(registry', catalogRepoPath) = Tags(registry, catalogRepoPath)]_vars

\* a request has failed on its push, alone, on a populated index whose catalog
\* is published
C25_Witness ==
    /\ Quiescent /\ ~overlapped /\ restarts = 0 /\ ops = 1
    /\ req[1].status = StatusInternalServerError
    /\ resources # EmptyIndex
    /\ catalogRepoPath \in DOMAIN registry
    /\ PublishedCatalog \in Assemblies(resources)

\* the goroutine of slot p is inside the registry call of PushCatalog
InRegistryCall(p) == req[p].pc = "assembled"

\* C26: the index lock is not held across a registry call: while a goroutine
\* is inside the registry call of PushCatalog, however long, every Get, List,
\* Set and Delete another goroutine issues can take the lock, and a copy under
\* way can take its next step.
C26_LockFreeDuringRegistryCall ==
    \A p, q \in Procs :
        (InRegistryCall(p) /\ q # p) =>
            /\ (req[q].pc = "idle" /\ ops < MaxOps) =>
                  /\ \A name \in IndexNames :
                        /\ ENABLED CallGet(q, name)
                        /\ ENABLED CallDelete(q, name)
                        /\ \A manifest \in IndexManifests(name) : ENABLED CallSet(q, name, manifest)
                  /\ ENABLED RLock(q, "list")
            /\ req[q].pc = "copying" => ENABLED (CopyEntry(q) \/ RUnlock(q))

\* a Set or Delete has completed while the other goroutine was inside the
\* registry call
C26_Witness ==
    \E p \in Procs :
        /\ InRegistryCall(p)
        /\ resources # req[p].base
        /\ \A q \in Procs \ {p} : req[q].pc = "idle"
        /\ ops = 2

\* C27: the mapping from index key to archive filename is injective on every
\* entry set the assembler is given, and no entry's filename is the name of the
\* manifest-list file.
C27_FilenameInjective ==
    \A p \in Procs :
        req[p].pc = "assembled" =>
            /\ \A k1, k2 \in DOMAIN Held(p) : FileOf(k1) = FileOf(k2) => k1 = k2
            /\ \A k \in DOMAIN Held(p) : <<"manifests", "/">> \o FileOf(k) # ListPath

====
